---- MODULE Spec2Model ----
(***************************************************************************)
(* Model of the concurrent file-processing worker of src/main.go:          *)
(* main -> processAll -> processFolder (bounded pool of processFile        *)
(* goroutines, result channel, sort, verdict) -> writeLogAtomic            *)
(* (log.tmp -> log.json) -> renameFolderSafe (r_<id> -> d_<id> / f_<id>).  *)
(*                                                                         *)
(* The file system is part of the state: the input directory maps folder   *)
(* identities (inodes) to names, and every folder maps file names to       *)
(* files.  System-call failures that depend on the environment (I/O        *)
(* errors, full disk, permissions of the parent directory) are             *)
(* nondeterministic choices of the action that makes the call.             *)
(***************************************************************************)
EXTENDS Integers, Sequences, FiniteSets, TLC

\* ------------------------------------------------------------------ bounds
NFolders == 3     \* folders in the input directory
MaxFiles == 1     \* entries of the pending folder at the start (pipeline)
PoolFiles == 2    \* entries of the pending folder at the start (pool)
MaxConc  == 2     \* largest value of the -concurrency flag
MaxTime  == 1     \* the clock (UTC seconds) runs over 0..MaxTime
MaxRuns  == 2     \* runs of the pipeline over the same input directory
BatchPending == 2 \* pending folders in the input directory (batch)
BatchFiles == 1   \* entries of each pending folder at the start (batch)

Folders == 1..NFolders
Times   == 0..MaxTime

\* --------------------------------------------------------------- file names
\* File names are byte strings: sort.Slice compares them byte-wise.
NameA   == <<97>>                                  \* "a"
NameB   == <<98>>                                  \* "b"
LogTmp  == <<108, 111, 103, 46, 116, 109, 112>>       \* "log.tmp"
LogJson == <<108, 111, 103, 46, 106, 115, 111, 110>>  \* "log.json"
FileNames == {NameA, NameB, LogTmp, LogJson}

Min(a, b) == IF a < b THEN a ELSE b

\* Go's s < t on strings: lexicographic on bytes, a proper prefix is smaller.
StrLess(s, t) ==
    \E k \in 0..Min(Len(s), Len(t)) :
        /\ \A i \in 1..k : s[i] = t[i]
        /\ \/ k = Len(s) /\ k < Len(t)
           \/ k < Len(s) /\ k < Len(t) /\ s[k + 1] < t[k + 1]

\* ------------------------------------------------------------------- files
\* A file is its bytes (a sequence of tokens) and how it answers open/read:
\* "ok", "noopen" (os.Open fails), "noread" (io.Copy fails), "dir" (a nested
\* directory), "absent" (no such entry).
Hello == << <<"hello">> >>
World == << <<"world">> >>
NoFile == [data |-> <<>>, mode |-> "absent"]
InitialData(n) == IF n = NameB THEN World ELSE Hello
InitialModes == {"ok", "noopen", "noread", "dir"}

\* ----------------------------------------------------------- folder names
\* A folder name is <prefix><base>, base = id or id_<timestamp>...: the base
\* is the sequence of its "_"-separated parts.
FolderNm(p, b) == [prefix |-> p, base |-> b]

PrefixRank(p) == CASE p = "d_" -> 1 [] p = "f_" -> 2 [] OTHER -> 3

\* Byte order of two folder names (os.ReadDir returns entries sorted by name).
NameLess(a, b) ==
    \/ PrefixRank(a.prefix) < PrefixRank(b.prefix)
    \/ a.prefix = b.prefix /\ StrLess(a.base, b.base)

VARIABLES
    concurrency,  \* the -concurrency flag, then the coerced value handed down
    now,          \* the wall clock, UTC seconds
    runs,         \* runs of the pipeline started so far
    folderName,   \* input directory: folder identity -> name
    entries,      \* folder identity -> (file name -> file)
    pc,           \* position of the main goroutine
    targets,      \* processAll: paths of the r_ folders found by the scan
    idx,          \* processAll: index of the folder being processed
    folder,       \* processFolder: its path (a folder name)
    files,        \* processFolder: names of the non-directory entries
    next,         \* processFolder: index of the next file to dispatch
    sem,          \* tokens in the semaphore channel
    wg,           \* the WaitGroup counter
    task,         \* file name -> goroutine state [pc, ts, entry] and its history
    resultsCh,    \* the buffered result channel
    closed,       \* resultsCh is closed
    results,      \* the collected, then sorted, records
    arrival,      \* history: the file names in the order their records were received
    allSuccess,   \* the aggregate verdict
    data,         \* writeLogAtomic: the serialized log
    logErr,       \* writeLogAtomic's return value
    ret,          \* processFolder's return value
    flag,         \* history: the -concurrency flag as it was given
    published,    \* history: the folders whose log.json was published
    processed     \* history: the paths handed to processFolder in this run

vars == <<concurrency, now, runs, folderName, entries, pc, targets, idx,
          folder, files, next, sem, wg, task, resultsCh, closed, results,
          allSuccess, arrival, data, logErr, ret, flag, published, processed>>

fsVars   == <<folderName, entries>>
poolVars == <<files, next, sem, wg, task, resultsCh, closed, results, allSuccess,
             arrival>>
logVars  == <<data, logErr>>
allVars  == <<targets, idx, folder, ret>>
histVars == <<flag, published, processed>>

\* ------------------------------------------------------------ LogEntry
NoDigest == <<>>
NoEntry  == [Filename |-> <<>>, Status |-> "", MD5 |-> NoDigest, Error |-> "",
             Timestamp |-> 0]

\* md5 + hex.EncodeToString: the digests of the two initial contents, and an
\* injective symbolic digest for any other content (a log hashed by a later run).
MD5Hex(bytes) ==
    CASE bytes = Hello -> <<"hex", "5d41402abc4b2a76b9719d911017c592">>
      [] bytes = World -> <<"hex", "7d793037a0760186574b0282f2f435e7">>
      [] OTHER         -> <<"md5of", bytes>>

\* time.Now().UTC().Format(time.RFC3339): the clock at second resolution.
FormatRFC3339(t) == t

OpenErrorEntry(basename, ts) ==
    [Filename |-> basename, Status |-> "error", MD5 |-> NoDigest,
     Error |-> "failed to open file", Timestamp |-> ts]

ReadErrorEntry(basename, ts) ==
    [Filename |-> basename, Status |-> "error", MD5 |-> NoDigest,
     Error |-> "failed to read file", Timestamp |-> ts]

\* Mutant: the success record is stamped when the hash is done.
MutSuccessEntry(basename, bytes, ts) ==
    [Filename |-> basename, Status |-> "success", MD5 |-> MD5Hex(bytes),
     Error |-> "", Timestamp |-> FormatRFC3339(now)]

SuccessEntry(basename, bytes, ts) ==
    [Filename |-> basename, Status |-> "success", MD5 |-> MD5Hex(bytes),
     Error |-> "", Timestamp |-> ts]

\* --------------------------------------------------------- aggregation
\* sort.Slice(results, Filename <): insertion of each record in its place.
RECURSIVE InsertSorted(_, _)
InsertSorted(e, s) ==
    IF s = <<>> THEN <<e>>
    ELSE IF StrLess(e.Filename, Head(s).Filename) THEN <<e>> \o s
    ELSE <<Head(s)>> \o InsertSorted(e, Tail(s))

\* Mutant: the records stay in arrival order.
MutSortByFilename(s) == s

RECURSIVE SortByFilename(_)
SortByFilename(s) ==
    IF s = <<>> THEN <<>> ELSE InsertSorted(Head(s), SortByFilename(Tail(s)))

\* Mutant: the verdict loop looks at the first record only.
MutAllSuccess(rs) == rs = <<>> \/ rs[1].Status = "success"

AllSuccess(rs) == \A i \in 1..Len(rs) : rs[i].Status = "success"

\* ------------------------------------------------------- serialization
\* json.MarshalIndent of one LogEntry: the fields in declaration order, md5
\* and error left out when empty (omitempty).
EntryJson(e) ==
    << <<"filename", e.Filename>>, <<"status", e.Status>> >>
    \o (IF e.MD5 = NoDigest THEN <<>> ELSE << <<"md5", e.MD5>> >>)
    \o (IF e.Error = "" THEN <<>> ELSE << <<"error", e.Error>> >>)
    \o << <<"timestamp", FormatRFC3339(e.Timestamp)>> >>

\* json.MarshalIndent(results): a nil slice (no record was appended) encodes
\* as null, any other as an array of objects.  The result is a token sequence.
Marshal(rs) ==
    IF rs = <<>> THEN << <<"null">> >>
    ELSE << <<"[">> >> \o [i \in 1..Len(rs) |-> EntryJson(rs[i])] \o << <<"]">> >>

\* The records a reader decodes from a complete log.
RecordCount(bytes) == IF bytes = << <<"null">> >> THEN 0 ELSE Len(bytes) - 2

IsProperPrefix(p, s) == Len(p) < Len(s) /\ p = SubSeq(s, 1, Len(p))

\* ---------------------------------------------------- renameFolderSafe
\* The identifier: the name without "r_", or, for another prefix,
\* everything after the first underscore.
BaseOf(src) ==
    IF src.prefix # "r_" THEN src.base ELSE src.base

TargetPrefix(ok) == IF ok THEN "d_" ELSE "f_"

\* time.Now().UTC().Format("20060102T150405Z")
FormatSuffix(t) == t

\* The rename target: <prefix><base>, with a timestamp suffix when a folder
\* of that name exists (os.Stat succeeds).
TargetName(src, ok, existing, t) ==
    LET cand == FolderNm(TargetPrefix(ok), BaseOf(src))
    IN  IF cand \in existing
        THEN FolderNm(TargetPrefix(ok), Append(BaseOf(src), FormatSuffix(t)))
        ELSE cand

\* Mutant: the scan takes every directory.
MutHasPrefixR(nm) == TRUE

\* strings.HasPrefix(name, "r_"): the scan's filter.
HasPrefixR(nm) == nm.prefix = "r_"

\* ------------------------------------------------------------ file system
ExistingNames == {folderName[f] : f \in Folders}

\* The folder a path names (names are unique in the input directory).
FolderAt(nm) == CHOOSE f \in Folders : folderName[f] = nm

\* The names in s, ascending.
RECURSIVE SortedNames(_)
SortedNames(s) ==
    IF s = {} THEN <<>>
    ELSE LET m == CHOOSE x \in s : \A y \in s \ {x} : StrLess(x, y)
         IN  <<m>> \o SortedNames(s \ {m})

RECURSIVE SortedFolders(_)
SortedFolders(s) ==
    IF s = {} THEN <<>>
    ELSE LET m == CHOOSE x \in s : \A y \in s \ {x} : NameLess(x, y)
         IN  <<m>> \o SortedFolders(s \ {m})

\* os.ReadDir(folder) without the nested directories, in name order.
FileEntries(f) ==
    SortedNames({n \in FileNames : entries[f][n].mode \notin {"absent", "dir"}})

\* The paths processAll collects: the directories whose name starts with r_.
ScanTargets == SortedFolders({nm \in ExistingNames : HasPrefixR(nm)})

\* ------------------------------------------------------------------- Init
\* A goroutine not yet started.  began, opened and ended are history: the
\* clock when processFile was entered, when it called os.Open, and when the
\* outcome of the file was determined.
IdleTask == [pc |-> "idle", ts |-> 0, entry |-> NoEntry,
             began |-> 0, opened |-> 0, ended |-> 0]

PendingName   == FolderNm("r_", <<1>>)
TerminalNames == {FolderNm(p, <<1>>) : p \in {"d_", "f_"}}
                 \cup {FolderNm(p, <<1, t>>) : p \in {"d_", "f_"}, t \in Times}

\* What a folder finalized by an earlier run holds: the log of an empty folder.
TerminalEntries ==
    [n \in FileNames |->
        IF n = LogJson THEN [data |-> Marshal(<<>>), mode |-> "ok"] ELSE NoFile]

\* The contents a pending folder may start with: at most maxFiles entries.
PendingEntries(maxFiles) ==
    {e \in [FileNames -> {NoFile} \cup
                          [data : {Hello, World, <<>>}, mode : InitialModes]] :
        /\ Cardinality({n \in FileNames : e[n] # NoFile}) <= maxFiles
        /\ \A n \in FileNames :
              e[n] # NoFile =>
                  e[n].data = (IF e[n].mode = "dir" THEN <<>> ELSE InitialData(n))}

\* The worker process before main runs.
InitProcess ==
    /\ now = 0
    /\ runs = 1
    /\ pc = "main"
    /\ targets = <<>>
    /\ idx = 1
    /\ folder = PendingName
    /\ files = <<>>
    /\ next = 1
    /\ sem = 0
    /\ wg = 0
    /\ task = [n \in FileNames |-> IdleTask]
    /\ resultsCh = <<>>
    /\ closed = FALSE
    /\ results = <<>>
    /\ arrival = <<>>
    /\ allSuccess = TRUE
    /\ data = <<>>
    /\ logErr = "nil"
    /\ ret = "nil"
    /\ flag = concurrency
    /\ published = {f \in Folders : folderName[f].prefix # "r_"}
    /\ processed = <<>>

InitEntries(maxFiles) ==
    \E pe \in PendingEntries(maxFiles) :
        entries = [f \in Folders |->
                      IF folderName[f] = PendingName THEN pe ELSE TerminalEntries]

\* The pipeline: one pending folder of at most MaxFiles entries beside any
\* folders left by earlier runs (listed in name order).
Init ==
    /\ concurrency \in 0..MaxConc
    /\ folderName \in [Folders -> {PendingName} \cup TerminalNames]
    /\ \A f \in Folders : \A g \in Folders :
          f < g => NameLess(folderName[f], folderName[g])
    /\ \E f \in Folders : folderName[f] = PendingName
    /\ InitEntries(MaxFiles)
    /\ InitProcess

\* The pool: one pending folder of at most PoolFiles entries, beside folders
\* of earlier runs whose names its finalization does not meet.
PoolDirectory ==
    LET stamped == SortedFolders({nm \in TerminalNames : Len(nm.base) > 1})
    IN  [f \in Folders |-> IF f = NFolders THEN PendingName ELSE stamped[f]]

InitPool ==
    /\ concurrency \in -1..MaxConc
    /\ folderName = PoolDirectory
    /\ InitEntries(PoolFiles)
    /\ InitProcess

\* The batch: the last BatchPending folders are pending (r_1, r_2, ...), each
\* of at most BatchFiles entries; the others were left by earlier runs.
BatchNames == {FolderNm("r_", <<i>>) : i \in 1..BatchPending}

BatchDirectory ==
    LET stamped == SortedFolders({nm \in TerminalNames : Len(nm.base) > 1})
        old     == NFolders - BatchPending
    IN  [f \in Folders |->
            IF f > old THEN FolderNm("r_", <<f - old>>) ELSE stamped[f]]

InitBatch ==
    /\ concurrency \in 0..MaxConc
    /\ folderName = BatchDirectory
    /\ \E pe \in [1..BatchPending -> PendingEntries(BatchFiles)] :
          LET old == NFolders - BatchPending
          IN  entries = [f \in Folders |->
                            IF f > old THEN pe[f - old] ELSE TerminalEntries]
    /\ InitProcess

\* ------------------------------------------------------------------- main
\* Mutant: only a negative -concurrency is replaced.
MutCoerce(c) == IF c < 0 THEN 1 ELSE c

\* main: a non-positive -concurrency becomes 1; then processAll.
Coerce(c) == IF c <= 0 THEN 1 ELSE c

Main ==
    /\ pc = "main"
    /\ concurrency' = Coerce(concurrency)
    /\ pc' = "scan"
    /\ UNCHANGED <<histVars, now, runs, fsVars, allVars, poolVars, logVars>>

\* processAll: os.Stat and os.ReadDir of the input directory, then the filter.
Scan ==
    /\ pc = "scan"
    /\ \E ok \in BOOLEAN :
          IF ok
          THEN /\ targets' = ScanTargets
               /\ idx' = 1
               /\ pc' = "loop"
          ELSE /\ pc' = "exit"
               /\ UNCHANGED <<targets, idx>>
    /\ UNCHANGED <<histVars, concurrency, now, runs, fsVars, folder, ret, poolVars, logVars>>

\* Mutant: processAll gives up at the first folder that returned an error.
MutContinueAfter(err) == err = "nil"

\* processAll: an error of processFolder is logged and the loop goes on.
ContinueAfter(err) == TRUE

\* processAll: the head of the loop over targets.
NextFolder ==
    /\ pc = "loop"
    /\ IF idx <= Len(targets) /\ ContinueAfter(ret)
       THEN /\ folder' = targets[idx]
            /\ processed' = Append(processed, targets[idx])
            /\ pc' = "readdir"
       ELSE /\ pc' = "returned"
            /\ UNCHANGED <<folder, processed>>
    /\ UNCHANGED <<flag, published, concurrency, now, runs, fsVars, targets, idx, ret,
                   poolVars, logVars>>

\* ---------------------------------------------------------- processFolder
\* os.ReadDir(folder), the directory filter, and the channels.
ReadDir ==
    /\ pc = "readdir"
    /\ \E ok \in BOOLEAN :
          IF ok
          THEN /\ files' = FileEntries(FolderAt(folder))
               /\ next' = 1
               /\ sem' = 0
               /\ wg' = 0
               /\ task' = [n \in FileNames |-> IdleTask]
               /\ resultsCh' = <<>>
               /\ closed' = FALSE
               /\ results' = <<>>
               /\ arrival' = <<>>
               /\ allSuccess' = TRUE
               /\ data' = <<>>
               /\ logErr' = "nil"
               /\ pc' = "dispatch"
               /\ UNCHANGED <<idx, ret>>
          ELSE /\ ret' = "read folder"
               /\ idx' = idx + 1
               /\ pc' = "loop"
               /\ UNCHANGED <<poolVars, logVars>>
    /\ UNCHANGED <<histVars, concurrency, now, runs, fsVars, targets, folder>>

\* Mutant: the semaphore admits one task fewer than its capacity.
MutCanAcquireFewer(held, cap) == held < cap - 1

\* Mutant: the semaphore admits one task more than its capacity.
MutCanAcquire(held, cap) == held <= cap

\* make(chan struct{}, concurrency): a send succeeds while the buffer has room.
CanAcquire(held, cap) == held < cap

\* One turn of the dispatch loop, its first statement: wg.Add(1).
WgAdd ==
    /\ pc = "dispatch"
    /\ next <= Len(files)
    /\ wg' = wg + 1
    /\ pc' = "acquire"
    /\ UNCHANGED <<histVars, concurrency, now, runs, fsVars, allVars, files, next, sem,
                   task, resultsCh, closed, results, allSuccess, arrival, logVars>>

\* The rest of the turn: sem <- struct{}{} (it waits for a slot), go func.
Dispatch ==
    /\ pc = "acquire"
    /\ CanAcquire(sem, concurrency)
    /\ sem' = sem + 1
    /\ task' = [task EXCEPT ![files[next]].pc = "start"]
    /\ next' = next + 1
    /\ pc' = "dispatch"
    /\ UNCHANGED <<histVars, concurrency, now, runs, fsVars, allVars, files, wg,
                   resultsCh, closed, results, allSuccess, arrival, logVars>>

\* The loop is over: go func() { wg.Wait(); close(resultsCh) }(), then range.
DispatchDone ==
    /\ pc = "dispatch"
    /\ next > Len(files)
    /\ pc' = "collect"
    /\ UNCHANGED <<histVars, concurrency, now, runs, fsVars, allVars, poolVars, logVars>>

\* processFile: now := time.Now().UTC().Format(time.RFC3339).
TStart(n) ==
    /\ task[n].pc = "start"
    /\ task' = [task EXCEPT ![n].pc = "open", ![n].ts = FormatRFC3339(now),
                             ![n].began = now]
    /\ UNCHANGED <<histVars, concurrency, now, runs, fsVars, pc, allVars, files, next, sem,
                   wg, resultsCh, closed, results, allSuccess, arrival, logVars>>

\* processFile: os.Open.
TOpen(n) ==
    /\ task[n].pc = "open"
    /\ LET file == entries[FolderAt(folder)][n]
       IN  IF file.mode \in {"noopen", "absent"}
           THEN task' = [task EXCEPT ![n].pc = "send",
                                     ![n].entry = OpenErrorEntry(n, task[n].ts),
                                     ![n].opened = now, ![n].ended = now]
           ELSE task' = [task EXCEPT ![n].pc = "read", ![n].opened = now]
    /\ UNCHANGED <<histVars, concurrency, now, runs, fsVars, pc, allVars, files, next, sem,
                   wg, resultsCh, closed, results, allSuccess, arrival, logVars>>

\* processFile: io.Copy into the hash, hash.Sum, f.Close.
TRead(n) ==
    /\ task[n].pc = "read"
    /\ LET file == entries[FolderAt(folder)][n]
       IN  IF file.mode # "ok"
           THEN task' = [task EXCEPT ![n].pc = "send",
                                     ![n].entry = ReadErrorEntry(n, task[n].ts),
                                     ![n].ended = now]
           ELSE task' = [task EXCEPT ![n].pc = "send",
                                     ![n].entry = SuccessEntry(n, file.data, task[n].ts),
                                     ![n].ended = now]
    /\ UNCHANGED <<histVars, concurrency, now, runs, fsVars, pc, allVars, files, next, sem,
                   wg, resultsCh, closed, results, allSuccess, arrival, logVars>>

\* Mutant: the buffer of resultsCh is one record short.
MutResultsCap(fs) == Len(fs) - 1

\* make(chan LogEntry, len(files))
ResultsCap(fs) == Len(fs)

\* resultsCh <- entry: it needs an open channel with room in its buffer.
TSend(n) ==
    /\ task[n].pc = "send"
    /\ ~closed
    /\ Len(resultsCh) < ResultsCap(files)
    /\ resultsCh' = Append(resultsCh, task[n].entry)
    /\ task' = [task EXCEPT ![n].pc = "release"]
    /\ UNCHANGED <<histVars, concurrency, now, runs, fsVars, pc, allVars, files, next, sem,
                   wg, closed, results, allSuccess, arrival, logVars>>

\* Mutant: the goroutine returns without giving its slot back.
MutTRelease(n) ==
    /\ task[n].pc = "release"
    /\ task' = [task EXCEPT ![n].pc = "wgdone"]
    /\ UNCHANGED <<histVars, concurrency, now, runs, fsVars, pc, allVars, files, next, sem,
                   wg, resultsCh, closed, results, allSuccess, arrival, logVars>>

\* defer func() { <-sem }()
TRelease(n) ==
    /\ task[n].pc = "release"
    /\ sem > 0
    /\ sem' = sem - 1
    /\ task' = [task EXCEPT ![n].pc = "wgdone"]
    /\ UNCHANGED <<histVars, concurrency, now, runs, fsVars, pc, allVars, files, next, wg,
                   resultsCh, closed, results, allSuccess, arrival, logVars>>

\* defer wg.Done()
TDone(n) ==
    /\ task[n].pc = "wgdone"
    /\ wg' = wg - 1
    /\ task' = [task EXCEPT ![n].pc = "finished"]
    /\ UNCHANGED <<histVars, concurrency, now, runs, fsVars, pc, allVars, files, next, sem,
                   resultsCh, closed, results, allSuccess, arrival, logVars>>

\* Mutant: the closer does not wait for the tasks.
MutWaitReturns(counter) == TRUE

\* wg.Wait() returns when the counter is zero.
WaitReturns(counter) == counter = 0

\* The closer goroutine: wg.Wait(), then close(resultsCh).
CloseResults ==
    /\ pc = "collect"
    /\ ~closed
    /\ WaitReturns(wg)
    /\ closed' = TRUE
    /\ UNCHANGED <<histVars, concurrency, now, runs, fsVars, pc, allVars, files, next, sem,
                   wg, task, resultsCh, results, allSuccess, arrival, logVars>>

\* results = append(results, r)
Collected(rs, r) == Append(rs, r)

\* One turn of for r := range resultsCh.
Collect ==
    /\ pc = "collect"
    /\ resultsCh # <<>>
    /\ results' = Collected(results, Head(resultsCh))
    /\ arrival' = Append(arrival, Head(resultsCh).Filename)
    /\ resultsCh' = Tail(resultsCh)
    /\ UNCHANGED <<histVars, concurrency, now, runs, fsVars, pc, allVars, files, next, sem,
                   wg, task, closed, allSuccess, logVars>>

\* The range ends on the closed, drained channel; then the sort and the verdict.
CollectEnd ==
    /\ pc = "collect"
    /\ resultsCh = <<>>
    /\ closed
    /\ results' = SortByFilename(results)
    /\ allSuccess' = AllSuccess(results')
    /\ pc' = "create"
    /\ UNCHANGED <<histVars, concurrency, now, runs, fsVars, allVars, files, next, sem, wg,
                   task, resultsCh, closed, arrival, logVars>>

\* --------------------------------------------------------- writeLogAtomic
\* Mutant: the log is written in place, under its final name.
MutTmpPath == LogJson

TmpPath   == LogTmp     \* filepath.Join(folder, "log.tmp")
FinalPath == LogJson    \* filepath.Join(folder, "log.json")

\* os.Create: O_RDWR|O_CREATE|O_TRUNC.  It cannot open a directory or a file
\* the process may not open; it empties a file that exists.
CanCreate(file) == file.mode \notin {"noopen", "dir"}
Created(file) == [data |-> <<>>, mode |-> IF file.mode = "absent" THEN "ok" ELSE file.mode]

\* Mutant: the rename's arguments are swapped.
MutRenameFile(ents, from, to) ==
    IF from = to THEN ents
    ELSE [ents EXCEPT ![from] = ents[to], ![to] = NoFile]

\* os.Rename of a file inside the folder: the source replaces the target.
RenameFile(ents, from, to) ==
    IF from = to THEN ents
    ELSE [ents EXCEPT ![to] = ents[from], ![from] = NoFile]

\* os.Remove
RemoveFile(ents, path) == [ents EXCEPT ![path] = NoFile]

\* json.MarshalIndent (it cannot fail on a slice of string fields), os.Create.
CreateTmp ==
    /\ pc = "create"
    /\ data' = Marshal(results)
    /\ LET f == FolderAt(folder)
       IN  \E ok \in BOOLEAN :
              IF ok /\ CanCreate(entries[f][TmpPath])
              THEN /\ entries' = [entries EXCEPT ![f][TmpPath] = Created(@)]
                   /\ pc' = "write"
                   /\ UNCHANGED logErr
              ELSE /\ logErr' = "create tmp log"
                   /\ pc' = "logfailed"
                   /\ UNCHANGED entries
    /\ UNCHANGED <<histVars, concurrency, now, runs, folderName, allVars, poolVars>>

\* tmpFile.Write(data): all the bytes, or an error after a proper prefix.
WriteTmp ==
    /\ pc = "write"
    /\ LET f == FolderAt(folder)
       IN  \E k \in 0..Len(data) :
              /\ entries' = [entries EXCEPT ![f][TmpPath].data = SubSeq(data, 1, k)]
              /\ pc' = IF k = Len(data) THEN "sync" ELSE "writefail"
    /\ UNCHANGED <<histVars, concurrency, now, runs, folderName, allVars, poolVars, logVars>>

\* The write failed: tmpFile.Close(), os.Remove(tmpPath), return the error.
\* The error of os.Remove is dropped: when it fails log.tmp stays as it is.
WriteFailCleanup ==
    /\ pc = "writefail"
    /\ \E removed \in BOOLEAN :
          entries' = IF removed
                     THEN [entries EXCEPT ![FolderAt(folder)] = RemoveFile(@, TmpPath)]
                     ELSE entries
    /\ logErr' = "write tmp log"
    /\ pc' = "logfailed"
    /\ UNCHANGED <<histVars, concurrency, now, runs, folderName, allVars, poolVars, data>>

\* tmpFile.Sync(): a failure is a warning on stderr, nothing else.
SyncTmp ==
    /\ pc = "sync"
    /\ \E ok \in BOOLEAN : pc' = "close"
    /\ UNCHANGED <<histVars, concurrency, now, runs, fsVars, allVars, poolVars, logVars>>

\* tmpFile.Close(): on failure the error is returned as it is.
CloseTmp ==
    /\ pc = "close"
    /\ \E ok \in BOOLEAN :
          IF ok
          THEN /\ pc' = "publish"
               /\ UNCHANGED logErr
          ELSE /\ logErr' = "close tmp log"
               /\ pc' = "logfailed"
    /\ UNCHANGED <<histVars, concurrency, now, runs, fsVars, allVars, poolVars, data>>

\* os.Rename(tmpPath, finalPath); on failure os.Remove(tmpPath), whose own
\* error is dropped: when it fails log.tmp stays, holding the whole log.
Publish ==
    /\ pc = "publish"
    /\ LET f == FolderAt(folder)
       IN  \E ok \in BOOLEAN, removed \in BOOLEAN :
              IF ok /\ entries[f][FinalPath].mode # "dir"
              THEN /\ entries' = [entries EXCEPT ![f] = RenameFile(@, TmpPath, FinalPath)]
                   /\ published' = published \cup {f}
                   /\ logErr' = "nil"
                   /\ pc' = "finalize"
              ELSE /\ entries' = IF removed
                                   THEN [entries EXCEPT ![f] = RemoveFile(@, TmpPath)]
                                   ELSE entries
                   /\ logErr' = "rename tmp->final"
                   /\ pc' = "logfailed"
                   /\ UNCHANGED published
    /\ UNCHANGED <<flag, processed, concurrency, now, runs, folderName, allVars, poolVars,
                   data>>

\* ------------------------------------------------------- the finalizer
\* os.Rename of a directory: Go refuses a target that is an existing
\* directory (EEXIST); the environment may refuse any other as well.
RenameSucceeds(target, envOk) == envOk /\ target \notin ExistingNames

\* The verdict handed to renameFolderSafe after a published log ...
VerdictOf(all) == all

\* Mutant: the per-file verdict is used after a log failure too.
MutFailureVerdict(all) == all

\* ... and after a log that could not be written.
FailureVerdict(all) == FALSE

\* writeLogAtomic failed: renameFolderSafe(folder, false), then the error.
FinalizeAfterLogFailure ==
    /\ pc = "logfailed"
    /\ LET target == TargetName(folder, FailureVerdict(allSuccess), ExistingNames, now)
       IN  \E envOk \in BOOLEAN :
              IF RenameSucceeds(target, envOk)
              THEN /\ folderName' = [folderName EXCEPT ![FolderAt(folder)] = target]
                   /\ ret' = "failed to write log"
              ELSE /\ ret' = "logging error; folder rename error"
                   /\ UNCHANGED folderName
    /\ idx' = idx + 1
    /\ pc' = "loop"
    /\ UNCHANGED <<histVars, concurrency, now, runs, entries, targets, folder, poolVars, logVars>>

\* Mutant: the error of the folder rename is dropped.
MutRenameResult(renamed) == "nil"

\* processFolder's return value after renameFolderSafe(folder, allSuccess).
RenameResult(renamed) == IF renamed THEN "nil" ELSE "rename folder"

\* The log is published: renameFolderSafe(folder, allSuccess).
FinalizeVerdict ==
    /\ pc = "finalize"
    /\ LET target == TargetName(folder, VerdictOf(allSuccess), ExistingNames, now)
       IN  \E envOk \in BOOLEAN :
              IF RenameSucceeds(target, envOk)
              THEN /\ folderName' = [folderName EXCEPT ![FolderAt(folder)] = target]
                   /\ ret' = RenameResult(TRUE)
              ELSE /\ ret' = RenameResult(FALSE)
                   /\ UNCHANGED folderName
    /\ idx' = idx + 1
    /\ pc' = "loop"
    /\ UNCHANGED <<histVars, concurrency, now, runs, entries, targets, folder, poolVars, logVars>>

\* ------------------------------------------------------------ environment
\* A second of wall-clock time passes.
Tick ==
    /\ now < MaxTime
    /\ now' = now + 1
    /\ UNCHANGED <<histVars, concurrency, runs, fsVars, pc, allVars, poolVars, logVars>>

\* The worker is started again on the same input directory.
Rerun ==
    /\ pc \in {"returned", "exit"}
    /\ runs < MaxRuns
    /\ runs' = runs + 1
    /\ pc' = "main"
    /\ targets' = <<>>
    /\ idx' = 1
    /\ folder' = PendingName
    /\ files' = <<>>
    /\ next' = 1
    /\ sem' = 0
    /\ wg' = 0
    /\ task' = [n \in FileNames |-> IdleTask]
    /\ resultsCh' = <<>>
    /\ closed' = FALSE
    /\ results' = <<>>
    /\ arrival' = <<>>
    /\ allSuccess' = TRUE
    /\ data' = <<>>
    /\ logErr' = "nil"
    /\ ret' = "nil"
    /\ processed' = <<>>
    /\ UNCHANGED <<flag, published, concurrency, now, fsVars>>

Next ==
    \/ Main
    \/ Scan
    \/ NextFolder
    \/ ReadDir
    \/ WgAdd
    \/ Dispatch
    \/ DispatchDone
    \/ \E n \in FileNames : TStart(n)
    \/ \E n \in FileNames : TOpen(n)
    \/ \E n \in FileNames : TRead(n)
    \/ \E n \in FileNames : TSend(n)
    \/ \E n \in FileNames : TRelease(n)
    \/ \E n \in FileNames : TDone(n)
    \/ CloseResults
    \/ Collect
    \/ CollectEnd
    \/ CreateTmp
    \/ WriteTmp
    \/ WriteFailCleanup
    \/ SyncTmp
    \/ CloseTmp
    \/ Publish
    \/ FinalizeAfterLogFailure
    \/ FinalizeVerdict
    \/ Tick
    \/ Rerun

Spec == Init /\ [][Next]_vars

\* One run of the worker over one folder, the clock left out.
NextPool ==
    \/ Main
    \/ Scan
    \/ NextFolder
    \/ ReadDir
    \/ WgAdd
    \/ Dispatch
    \/ DispatchDone
    \/ \E n \in FileNames : TStart(n)
    \/ \E n \in FileNames : TOpen(n)
    \/ \E n \in FileNames : TRead(n)
    \/ \E n \in FileNames : TSend(n)
    \/ \E n \in FileNames : TRelease(n)
    \/ \E n \in FileNames : TDone(n)
    \/ CloseResults
    \/ Collect
    \/ CollectEnd
    \/ CreateTmp
    \/ WriteTmp
    \/ WriteFailCleanup
    \/ SyncTmp
    \/ CloseTmp
    \/ Publish
    \/ FinalizeAfterLogFailure
    \/ FinalizeVerdict

SpecPool == InitPool /\ [][NextPool]_vars

\* The goroutines of the pool: the main goroutine (dispatch loop and range
\* loop), one goroutine per file, and the closer.
MainPoolStep == WgAdd \/ Dispatch \/ DispatchDone \/ Collect \/ CollectEnd
TaskStep(n) ==
    TStart(n) \/ TOpen(n) \/ TRead(n) \/ TSend(n) \/ TRelease(n) \/ TDone(n)

\* The pool under Go's scheduler: a goroutine that can run is eventually run.
SpecPoolFair ==
    /\ SpecPool
    /\ WF_vars(MainPoolStep)
    /\ \A n \in FileNames : WF_vars(TaskStep(n))
    /\ WF_vars(CloseResults)

\* One run of the worker over a directory of several pending folders.
SpecBatch == InitBatch /\ [][NextPool]_vars

\* ===================================================================
\* Properties
\* ===================================================================
Range(s) == {s[i] : i \in 1..Len(s)}

\* The file tasks inside processFile, and those holding a slot.
Executing == {n \in FileNames : task[n].pc \in {"start", "open", "read"}}

\* The main goroutine is in the dispatch loop.
Dispatching == pc \in {"dispatch", "acquire"}

\* processFolder is past the pool: the range loop over resultsCh has ended.
PoolDone == pc \in {"create", "write", "writefail", "sync", "close", "publish",
                    "finalize", "logfailed"}

\* C1: while processFolder runs its pool with limit c >= 1, at most c file
\* tasks execute processFile at the same time.
C1_AtMostCExecuting ==
    (Dispatching \/ pc = "collect") =>
        /\ concurrency >= 1
        /\ Cardinality(Executing) <= concurrency

\* C1 witness: the limit is reached while a file still waits for a slot.
C1_Witness ==
    /\ pc = "acquire"
    /\ next <= Len(files)
    /\ Cardinality(Executing) = concurrency

\* C2: when the pool completes, the collected records are exactly one per
\* scanned file, whatever each file's outcome.
C2_OneRecordPerFile ==
    PoolDone =>
        /\ Len(results) = Len(files)
        /\ \A n \in FileNames :
              Cardinality({i \in 1..Len(results) : results[i].Filename = n})
                  = (IF n \in Range(files) THEN 1 ELSE 0)

\* C2 witness: a folder of two files, one read and one failed, both recorded.
C2_Witness ==
    /\ pc = "finalize"
    /\ Len(files) = 2
    /\ \E i \in 1..Len(results) : results[i].Status = "success"
    /\ \E i \in 1..Len(results) : results[i].Status = "error"

\* The (filename, status) sequence the folder's contents determine.
StatusOf(file) == IF file.mode = "ok" THEN "success" ELSE "error"
ExpectedOutcome ==
    LET f == FolderAt(folder)
    IN  [i \in 1..Len(files) |-> <<files[i], StatusOf(entries[f][files[i]])>>]

\* C3: the records handed to the log writer ascend by filename, and their
\* (filename, status) sequence depends on the folder alone, not on the order
\* in which the tasks completed.
C3_SortedWhateverTheSchedule ==
    pc = "create" =>
        /\ \A i \in 1..Len(results) : \A j \in 1..Len(results) :
              i < j => StrLess(results[i].Filename, results[j].Filename)
        /\ [i \in 1..Len(results) |-> <<results[i].Filename, results[i].Status>>]
              = ExpectedOutcome

\* C3 witness: the records arrived in descending filename order.
C3_Witness ==
    /\ pc = "create"
    /\ Len(arrival) = 2
    /\ StrLess(arrival[2], arrival[1])

\* The positions of the main goroutine inside writeLogAtomic.
InWriteLog == pc \in {"create", "write", "writefail", "sync", "close", "publish"}

\* C4: when the log is published and the folder rename succeeds, the folder
\* gets the done marker iff every record has status success, the failed
\* marker otherwise; a folder without files starts no task, gets a log of
\* zero records and is finalized done.
C4_VerdictIffAllSuccess ==
    [][ (pc = "finalize" /\ folderName' # folderName) =>
          LET f == FolderAt(folder)
              log == entries[f][LogJson].data
          IN  /\ log = Marshal(results)
              /\ folderName'[f].prefix =
                    (IF \A i \in 1..Len(results) : results[i].Status = "success"
                     THEN "d_" ELSE "f_")
              /\ files = <<>> =>
                    /\ \A n \in FileNames : task[n].pc = "idle"
                    /\ RecordCount(log) = 0
                    /\ folderName'[f].prefix = "d_" ]_vars

\* C4 witness: a folder with a good and a bad file was finalized failed.
C4_Witness ==
    /\ pc = "loop"
    /\ ret = "nil"
    /\ Len(results) = 2
    /\ \E i \in 1..2 : results[i].Status = "success"
    /\ \E i \in 1..2 : results[i].Status = "error"
    /\ FolderNm("f_", <<1>>) \in ExistingNames

\* C5: a folder is renamed only after writeLogAtomic has returned, and a
\* folder that leaves pending for the done marker already holds its
\* published log.json (the temporary file renamed to it).
C5_RenameAfterPublish ==
    [][ \A f \in Folders :
          folderName'[f] # folderName[f] =>
              /\ pc \in {"finalize", "logfailed"}
              /\ folderName[f] = folder
              /\ folderName'[f].prefix = "d_" =>
                    /\ pc = "finalize"
                    /\ logErr = "nil"
                    /\ entries[f][LogJson].data = Marshal(results)
                    /\ entries[f][LogTmp] = NoFile ]_vars

\* C5 witness: a folder with one file was finalized done with its log inside.
C5_Witness ==
    /\ pc = "loop"
    /\ ret = "nil"
    /\ Len(results) = 1
    /\ \E f \in Folders :
          /\ folderName[f].prefix = "d_"
          /\ entries[f][NameA] # NoFile
          /\ entries[f][LogJson].data = Marshal(results)

\* C6 as stated: when processFolder returns after a log failure, the folder
\* is no longer at its pending name.
C6_NeverLeftPending ==
    (pc = "loop" /\ ret \in {"failed to write log",
                             "logging error; folder rename error"})
        => folder \notin ExistingNames

\* C6 amended: every failure of writeLogAtomic leads to renameFolderSafe with
\* verdict failed, whatever the per-file outcomes; the folder then carries
\* the failed marker, or, when that rename fails, stays pending and both
\* errors are returned.
C6_FinalizedFailedUnlessRenameFails ==
    [][ /\ (logErr = "nil" /\ logErr' # "nil") => pc' = "logfailed"
        /\ (pc = "logfailed" /\ pc' # "logfailed") =>
              LET f == FolderAt(folder)
              IN  \/ /\ folderName'[f].prefix = "f_"
                     /\ ret' = "failed to write log"
                  \/ /\ folderName' = folderName
                     /\ ret' = "logging error; folder rename error" ]_vars

\* C6 witness: every file succeeded, the log failed, the folder is failed.
C6_Witness ==
    /\ pc = "loop"
    /\ ret = "failed to write log"
    /\ Len(results) = 1
    /\ allSuccess
    /\ \E f \in Folders :
          folderName[f].prefix = "f_" /\ entries[f][NameA] # NoFile

\* C7: during writeLogAtomic log.json is what it was before the call until
\* the rename step, and that step leaves it or makes it the complete log;
\* it never holds a part of the new log.
C7_FinalLogAllOrNothing ==
    [][ InWriteLog =>
          LET f == FolderAt(folder)
          IN  \/ entries'[f][LogJson] = entries[f][LogJson]
              \/ /\ pc = "publish"
                 /\ entries'[f][LogJson].data = Marshal(results) ]_vars

\* C7 witness: the write stopped after a part of the log; log.tmp holds the
\* part, log.json is the file it was at scan time.
C7_Witness ==
    /\ pc = "writefail"
    /\ LET f == FolderAt(folder)
       IN  /\ entries[f][LogTmp].data # <<>>
           /\ IsProperPrefix(entries[f][LogTmp].data, data)
           /\ entries[f][LogJson] = [data |-> Hello, mode |-> "ok"]

\* C8 as stated: when writeLogAtomic returns an error (create, write, close
\* or publish failed), it has set the error, log.json is untouched, and no
\* log.tmp of this call is left (after a failed create log.tmp is as before).
C8_TmpRemovedOnEveryFailure ==
    [][ (pc' = "logfailed" /\ pc # "logfailed") =>
          LET f == FolderAt(folder)
          IN  /\ logErr' # "nil"
              /\ entries'[f][LogJson] = entries[f][LogJson]
              /\ IF pc = "create"
                 THEN entries'[f][LogTmp] = entries[f][LogTmp]
                 ELSE entries'[f][LogTmp] = NoFile ]_vars

\* C9 as stated, its first half: when a folder exists at the target name,
\* the name the finalizer moves the folder to is not the name of any folder.
C9_SuffixedNameIsUnused ==
    pc \in {"finalize", "logfailed"} =>
        LET ok   == IF pc = "finalize" THEN allSuccess ELSE FALSE
            cand == [prefix |-> IF ok THEN "d_" ELSE "f_", base |-> folder.base]
        IN  cand \in ExistingNames =>
                TargetName(folder, ok, ExistingNames, now) \notin ExistingNames

\* C10: a folder is renamed at most once, from pending to done or failed;
\* only pending folders are collected by a scan and processed.
C10_OneWayTransition ==
    [][ /\ \A f \in Folders :
              folderName'[f] # folderName[f] =>
                  /\ folderName[f].prefix = "r_"
                  /\ folderName'[f].prefix \in {"d_", "f_"}
        /\ \A i \in 1..Len(targets') : targets'[i].prefix = "r_"
        /\ (pc' \in {"readdir", "dispatch", "acquire", "collect", "finalize",
                     "logfailed"}
               \/ InWriteLog') => folder'.prefix = "r_" ]_vars

\* C10 witness: the second run has ended without selecting the folder the
\* first run finalized.
C10_Witness ==
    /\ runs = 2
    /\ pc = "returned"
    /\ targets = <<>>
    /\ \E f \in Folders :
          folderName[f].prefix # "r_" /\ entries[f][NameA] # NoFile

\* C11 as stated: once a folder's log.json is published, no later step of
\* the run and no later run replaces, modifies or deletes it; a folder's log
\* is published at most once.
C11_PublishedLogNeverReplaced ==
    [][ \A f \in published :
          /\ entries'[f][LogJson] = entries[f][LogJson]
          /\ ~(pc = "publish" /\ pc' = "finalize" /\ f = FolderAt(folder)) ]_vars

\* C12: when the folder rename of the finalizer fails, processFolder returns
\* an error, the folder is still at its pending name with the contents it had
\* just before the attempt, and processAll moves on to the next folder (no
\* retry); a rename that succeeds changes the name of that folder alone.
C12_FailedRenameLeavesFolder ==
    [][ (pc \in {"finalize", "logfailed"} /\ pc' = "loop") =>
          LET f == FolderAt(folder)
          IN  /\ \A g \in Folders \ {f} : folderName'[g] = folderName[g]
              /\ entries' = entries
              /\ idx' = idx + 1
              /\ folderName'[f] = folderName[f] =>
                    /\ ret' \in {"rename folder",
                                 "logging error; folder rename error"}
                    /\ folderName'[f] = folder
                    /\ folder.prefix = "r_"
              /\ folderName'[f] # folderName[f] =>
                    ret' \in {"nil", "failed to write log"} ]_vars

\* C12 witness: the log was published, the folder rename failed: the folder
\* is pending, with its file and its log, and processFolder returned the error.
C12_Witness ==
    /\ pc = "loop"
    /\ ret = "rename folder"
    /\ idx = 2
    /\ \E f \in Folders :
          /\ folderName[f] = folder
          /\ folder.prefix = "r_"
          /\ entries[f][NameA] # NoFile
          /\ entries[f][LogJson].data = Marshal(results)

\* The positions of the main goroutine inside processFolder.
InProcessFolder ==
    pc \in {"readdir", "dispatch", "acquire", "collect", "finalize", "logfailed"}
        \/ InWriteLog

\* C13: in one run of processAll the folders handed to processFolder are the
\* pending folders the scan found, each once, one at a time, in scan order;
\* whatever a folder's outcome, the run ends only after the last of them.
C13_EveryPendingFolderOnce ==
    /\ Len(processed) <= Len(targets)
    /\ \A i \in 1..Len(processed) : processed[i] = targets[i]
    /\ \A i \in 1..Len(targets) : \A j \in 1..Len(targets) :
          i < j => NameLess(targets[i], targets[j])
    /\ pc \in {"loop", "readdir", "returned"} \/ InProcessFolder =>
          Range(targets) = BatchNames
    /\ InProcessFolder =>
          /\ Len(processed) = idx
          /\ folder = processed[idx]
    /\ pc = "loop" => Len(processed) = idx - 1
    /\ pc = "returned" => processed = targets

\* C13 witness: the first folder failed at folder level and is still pending;
\* the second was processed after it and finalized done.
C13_Witness ==
    /\ pc = "returned"
    /\ Len(processed) = BatchPending
    /\ FolderNm("r_", <<1>>) \in ExistingNames
    /\ FolderNm("d_", <<BatchPending>>) \in ExistingNames

\* C14: whatever -concurrency was given, the value handed to processAll and
\* used as the capacity of the semaphore is at least 1: a non-positive flag
\* has become exactly 1, a positive flag is kept.
C14_CapacityAtLeastOne ==
    pc # "main" =>
        /\ concurrency >= 1
        /\ flag <= 0 => concurrency = 1
        /\ flag >= 1 => concurrency = flag
        /\ sem <= concurrency

\* C14 witness: the flag was negative and the pool has admitted a task.
C14_Witness ==
    /\ pc = "dispatch"
    /\ flag < 0
    /\ sem = 1
    /\ \E n \in FileNames : task[n].pc = "start"

\* C15: under fair scheduling, with every hash call returning, a pool started
\* on N >= 0 files with limit c >= 1 (also c < N) terminates: every file is
\* dispatched, every task delivers its record and finishes, the channel is
\* closed and drained, and the range loop ends.
C15_PoolTerminates ==
    Dispatching ~>
        /\ pc = "create"
        /\ next = Len(files) + 1
        /\ \A n \in Range(files) : task[n].pc = "finished"
        /\ closed
        /\ resultsCh = <<>>
        /\ Len(results) = Len(files)

\* C15 witness: a pool of limit 1 over two files has ended.
C15_Witness ==
    /\ pc = "create"
    /\ concurrency = 1
    /\ Len(files) = PoolFiles
    /\ closed
    /\ \A n \in Range(files) : task[n].pc = "finished"

\* C16 as stated: the range loop takes a record from the channel only after
\* every file task has finished; read at its weakest: never while a task is
\* still inside processFile or has yet to send its record.
C16_ReadsOnlyAfterAllFinished ==
    [][ (pc = "collect" /\ Len(results') > Len(results)) =>
          \A n \in Range(files) :
              task[n].pc \notin {"start", "open", "read", "send"} ]_vars

\* C16 amended: records are taken from the channel while other tasks still
\* run; the channel is closed, and so the range loop ends and the sort and
\* the verdict start, only after every file task has finished (wg.Wait).
C16_LoopEndsAfterAllFinished ==
    /\ closed => /\ wg = 0
                 /\ \A n \in Range(files) : task[n].pc = "finished"
    /\ PoolDone => /\ closed
                   /\ resultsCh = <<>>
                   /\ \A n \in Range(files) : task[n].pc = "finished"

\* C16 witness: the range loop has ended on the closed channel after taking
\* the records of two finished tasks.
C16_Witness ==
    /\ pc = "create"
    /\ closed
    /\ wg = 0
    /\ Len(arrival) = PoolFiles
    /\ \A n \in Range(files) : task[n].pc = "finished"

\* The file tasks that have left processFile with their record.
Recorded == {n \in FileNames : task[n].pc \in {"send", "release", "wgdone", "finished"}}

\* C17 as stated: the timestamp of a record is the time at which processing
\* of the file completed (the content fully read, or the open or read failure
\* determined), and never a time before the file was opened.
C17_TimestampAtCompletion ==
    \A n \in Recorded :
        /\ task[n].entry.Timestamp = FormatRFC3339(task[n].ended)
        /\ task[n].entry.Timestamp >= FormatRFC3339(task[n].opened)

\* C17 amended: the timestamp of a record, success or error, is the time at
\* which processFile was entered, taken before os.Open: it is not later than
\* the time of the open and the time the outcome was determined.
C17_TimestampAtEntry ==
    \A n \in Recorded :
        /\ task[n].entry.Timestamp = FormatRFC3339(task[n].began)
        /\ task[n].began <= task[n].opened
        /\ task[n].opened <= task[n].ended

\* C17 witness: a file was read to its end a second after processFile was
\* entered; its success record carries the earlier second.
C17_Witness ==
    \E n \in Recorded :
        /\ task[n].entry.Status = "success"
        /\ task[n].began < task[n].ended
        /\ task[n].entry.Timestamp = FormatRFC3339(task[n].began)

\* The file tasks holding a slot: dispatched, their deferred release not yet run.
Holding == {n \in FileNames : task[n].pc \in {"start", "open", "read", "send", "release"}}

\* C18: a file task holds one slot from before its goroutine starts until its
\* deferred release, which runs once whatever the file's outcome and never
\* waits: in every state the tokens in sem are as many as the dispatched tasks
\* that have not yet released, each of them still counted by the WaitGroup
\* (which also counts the task the dispatcher is waiting to start);
\* when the pool completes no slot is held.
C18_SlotsMatchUnfinishedTasks ==
    /\ sem = Cardinality(Holding)
    /\ wg = Cardinality(Holding)
              + Cardinality({n \in FileNames : task[n].pc = "wgdone"})
              + (IF pc = "acquire" THEN 1 ELSE 0)
    /\ \A n \in FileNames : task[n].pc = "release" => sem > 0
    /\ PoolDone => sem = 0

\* C18 witness: two slots are held, one by a task whose file failed and which
\* is about to release, one by a task inside processFile.
C18_Witness ==
    /\ sem = 2
    /\ \E n \in Holding : \E k \in Holding :
          /\ task[n].pc = "release"
          /\ task[n].entry.Status = "error"
          /\ task[k].pc = "read"

\* C19: a file task at its send finds the channel open and with room, so it
\* neither waits nor sends on a closed channel; the channel never holds more
\* than N = len(files) records; it is closed once, after the last of the N
\* sends, and stays closed as long as the folder is processed.
C19_SendNeverBlocks ==
    /\ [](/\ Len(resultsCh) <= Len(files)
          /\ \A n \in FileNames :
                task[n].pc = "send" => (~closed /\ ENABLED TSend(n))
          /\ closed => \A n \in Range(files) :
                           task[n].pc \in {"release", "wgdone", "finished"})
    /\ [][ /\ (~closed /\ closed') =>
                Len(results) + Len(resultsCh) = Len(files)
           /\ (closed /\ ~closed') => pc' \in {"dispatch", "main"} ]_vars

\* C19 witness: both tasks have delivered before the range loop took a
\* record: the channel is full and still open.
C19_Witness ==
    /\ Len(files) = PoolFiles
    /\ Len(resultsCh) = Len(files)
    /\ ~closed
    /\ \A n \in Range(files) : task[n].pc \in {"release", "wgdone", "finished"}

\* C20 as stated: writeLogAtomic does not truncate, overwrite or delete a file
\* that was in the folder when it was scanned, whatever the file's name.
C20_ScannedFilesUntouched ==
    [][ InWriteLog =>
          LET f == FolderAt(folder)
          IN  \A n \in Range(files) : entries'[f][n] = entries[f][n] ]_vars

====
